---- MODULE Spec2Model ----
(***************************************************************************)
(* Client-side synchronisation between the React state of src/src/App.tsx  *)
(* (session, links, favorites, loading) and the remote store declared by   *)
(* the SQL migrations (tables links and favorites, their constraints and   *)
(* row-level policies).                                                    *)
(*                                                                         *)
(* Every handler of App.tsx is an async function: it runs up to its first  *)
(* await, suspends while the request is in flight, and resumes with the    *)
(* response.  A handler is a closure over the state of the render in which *)
(* it was created, so what it reads after the await (session, links,       *)
(* favorites) is what it captured when it was called.  An in-flight        *)
(* handler is a record of `pending` holding these captured values.         *)
(***************************************************************************)
EXTENDS Integers, Sequences, FiniteSets, Bags, TLC

\* Bounds of the model.
MaxLinks == 1       \* link rows ever inserted into the store
MaxPending == 2     \* handlers suspended at the same time, all contexts together
FeedLinks == 3      \* link rows ever inserted, where the feed's order is checked
FeedStarred == 1    \* there, the links (the oldest ones) whose star the user clicks
StarLinks == 2      \* link rows ever inserted, where stars on several links are checked

Tabs == {"t1", "t2"}          \* browser contexts, each running its own App()
Users == {"u1", "u2"}         \* auth.users
NoSession == "null"           \* useState<any>(null)
Email(u) == IF u = "u1" THEN "u1@mail" ELSE "u2@mail"   \* session.user.email
Undefined == "undefined"      \* session?.user?.email without a session

VARIABLES
  session,      \* [Tabs -> Users \cup {NoSession}]   useState session
  links,        \* [Tabs -> Seq(link row)]             useState links
  favorites,    \* [Tabs -> Seq(favorite row)]         useState favorites
  loading,      \* [Tabs -> BOOLEAN]                   useState loading
  mounted,      \* [Tabs -> BOOLEAN]  getSession() of the mount effect has resolved
                \* (it reads local storage; the user acts after it)
  pending,      \* bag of suspended handlers, each with the answer it will resume with
  dbLinks,      \* table links: set of rows, primary key id
  dbFavorites,  \* table favorites: bag of rows [user_id, link_id]
  clock,        \* gen_random_uuid() / now() of the store: rows inserted so far
  lastToast,    \* the latest toast shown: [tab, msg]
  env,          \* the deployment a behaviour runs in: the contexts open, the
                \* accounts of auth.users, and the bounds; it never changes
  run,          \* history: how far a run "toggle, await, toggle, await" on one
                \* link has come, see Observe
  failed        \* history: some request so far was answered with an error

vars == <<session, links, favorites, loading, mounted, pending,
          dbLinks, dbFavorites, clock, lastToast, env, run, failed>>

------------------------------------------------------------------------------
\* Rows and results

LinkRow(n, u) ==
  [id |-> n, user_id |-> u, creator_email |-> Email(u), created_at |-> n]

FavRow(u, l) == [link_id |-> l, user_id |-> u]

NoError == "none"
Result(e, d) == [error |-> e, data |-> d]

\* One suspended handler: the request it awaits, the values its closure captured
\* when it was called (session, links, favorites), and the answer on its way back.
Op(t, r, i, s, ls, fs, re) ==
  [tab |-> t, req |-> r, id |-> i, sess |-> s, links |-> ls, favs |-> fs, res |-> re]

Toast(t, m) == [tab |-> t, msg |-> m]

\* The level of a toast: the messages the code passes to toast.error; every other
\* message is passed to toast.success
ErrorMessages ==
  {"Error fetching links", "Error fetching favorites", "error.message",
   "Please sign in first", "Error adding link",
   "You can only delete your own links", "Error deleting link",
   "Already in favorites", "Error updating favorites"}
Level(m) == IF m \in ErrorMessages THEN "error" ELSE "success"

CanSend == BagCardinality(pending) < env.maxPending

Send(op) == pending (+) SetToBag({op})
Drop(op) == pending (-) SetToBag({op})
Replace(op, new) == (pending (-) SetToBag({op})) (+) SetToBag({new})

Run(t, u, l, n) == [tab |-> t, user |-> u, link |-> l, n |-> n]
NoRun == Run("-", NoSession, 0, 0)

Env(ts, us, ml, ms, mp) ==
  [tabs |-> ts, users |-> us, maxLinks |-> ml, maxStarred |-> ms, maxPending |-> mp]

------------------------------------------------------------------------------
\* The state after construction: every useState initial value, an empty store
Fresh ==
  /\ session = [t \in Tabs |-> NoSession]
  /\ links = [t \in Tabs |-> <<>>]
  /\ favorites = [t \in Tabs |-> <<>>]
  /\ loading = [t \in Tabs |-> TRUE]
  /\ mounted = [t \in Tabs |-> FALSE]
  /\ pending = EmptyBag
  /\ dbLinks = {}
  /\ dbFavorites = EmptyBag
  /\ clock = 0
  /\ lastToast = Toast("-", "-")
  /\ failed = FALSE
  /\ run = NoRun

\* One context, two accounts
Init == Fresh /\ env = Env({"t1"}, Users, MaxLinks, MaxLinks, MaxPending)

\* One context and one account, a longer feed
InitFeed == Fresh /\ env = Env({"t1"}, {"u1"}, FeedLinks, FeedStarred, MaxPending)

\* Two contexts of the same account
InitTabs == Fresh /\ env = Env(Tabs, {"u1"}, MaxLinks, MaxLinks, MaxPending)

\* One context and one account, two links and both stars
InitStars == Fresh /\ env = Env({"t1"}, {"u1"}, StarLinks, StarLinks, MaxPending)

------------------------------------------------------------------------------
\* The store: tables, constraints and row-level policies of the migrations.
\* Every policy is "TO authenticated": a request sent without a session (anon)
\* is covered by no policy.  A request takes effect in the store when it is sent;
\* its answer reaches the handler later, in any order with other answers.

Authenticated(a) == a \in Users

\* "Anyone can read links": USING (true)
LinksSelectPolicy(a, row) == Authenticated(a)
\* "Authenticated users can add links": WITH CHECK (true)
LinksInsertPolicy(a, row) == Authenticated(a)
\* "Users can delete their own links": USING (auth.uid() = user_id)
LinksDeletePolicy(a, row) == Authenticated(a) /\ a = row.user_id
\* "Users can read their own favorites": USING (auth.uid() = user_id)
FavoritesSelectPolicy(a, row) == Authenticated(a) /\ a = row.user_id
\* "Users can add favorites": WITH CHECK (auth.uid() = user_id)
FavoritesInsertPolicy(a, row) == Authenticated(a) /\ a = row.user_id
\* "Users can remove their own favorites": USING (auth.uid() = user_id)
FavoritesDeletePolicy(a, row) == Authenticated(a) /\ a = row.user_id

\* Faulty variant of OrderDesc: the order left ascending
RECURSIVE OrderAsc(_)
OrderAsc(S) ==
  IF S = {} THEN <<>>
  ELSE LET m == CHOOSE r \in S : \A q \in S : q.created_at >= r.created_at
       IN <<m>> \o OrderAsc(S \ {m})

\* .order('created_at', { ascending: false })
RECURSIVE OrderDesc(_)
OrderDesc(S) ==
  IF S = {} THEN <<>>
  ELSE LET m == CHOOSE r \in S : \A q \in S : q.created_at <= r.created_at
       IN <<m>> \o OrderDesc(S \ {m})

\* favorites.link_id REFERENCES links: a link row some favorite refers to
Referenced(l) == \E f \in BagToSet(dbFavorites) : f.link_id = l

\* UNIQUE(user_id, link_id)
UniqueViolation(row) == BagIn(row, dbFavorites)

\* What a request does: its answer and the tables after it
Outcome(re, ls, fs, c) == [res |-> re, dbLinks |-> ls, dbFavorites |-> fs, clock |-> c]
Untouched(re) == Outcome(re, dbLinks, dbFavorites, clock)

\* from('links').select('*').order('created_at', { ascending: false })
LinksSelect(a) ==
  Untouched(Result(NoError, OrderDesc({r \in dbLinks : LinksSelectPolicy(a, r)})))

\* from('links').insert([{ name, url, user_id, creator_email }])
LinksInsert(a, u) ==
  LET row == LinkRow(clock + 1, u) IN
  IF LinksInsertPolicy(a, row)
  THEN Outcome(Result(NoError, <<>>), dbLinks \cup {row}, dbFavorites, clock + 1)
  ELSE Untouched(Result("42501", <<>>))

\* from('links').delete().eq('id', id)
LinksDelete(a, id) ==
  LET hit == {r \in dbLinks : r.id = id /\ LinksDeletePolicy(a, r)} IN
  IF hit # {} /\ Referenced(id)
  THEN Untouched(Result("23503", <<>>))
  ELSE Outcome(Result(NoError, <<>>), dbLinks \ hit, dbFavorites, clock)

\* from('favorites').delete().match({ link_id, user_id })
FavoritesDelete(a, u, l) ==
  LET row == FavRow(u, l) IN
  IF FavoritesDeletePolicy(a, row) /\ BagIn(row, dbFavorites)
  THEN Outcome(Result(NoError, <<>>), dbLinks,
               dbFavorites (-) [x \in {row} |-> CopiesIn(row, dbFavorites)], clock)
  ELSE Untouched(Result(NoError, <<>>))

\* from('favorites').select('*').match({ link_id, user_id }).single():
\* data is the row when exactly one row is visible, otherwise null with an error
FavoritesSelectSingle(a, u, l) ==
  LET row == FavRow(u, l) IN
  IF FavoritesSelectPolicy(a, row) /\ CopiesIn(row, dbFavorites) = 1
  THEN Untouched(Result(NoError, <<row>>))
  ELSE Untouched(Result("PGRST116", <<>>))

\* from('favorites').insert([{ link_id, user_id }]).select().single()
FavoritesInsert(a, u, l) ==
  LET row == FavRow(u, l) IN
  IF ~FavoritesInsertPolicy(a, row) THEN Untouched(Result("42501", <<>>))
  ELSE IF UniqueViolation(row) THEN Untouched(Result("23505", <<>>))
  ELSE IF ~\E r \in dbLinks : r.id = l THEN Untouched(Result("23503", <<>>))
  ELSE Outcome(Result(NoError, <<row>>), dbLinks,
               dbFavorites (+) SetToBag({row}), clock)

\* The request reaches the store, or fails on the way (network or store failure:
\* nothing is executed and the promise resolves with an error).
Outcomes(o) == {o, Untouched(Result("network", <<>>))}

\* The tables after a request with outcome o
Store(o) ==
  /\ dbLinks' = o.dbLinks
  /\ dbFavorites' = o.dbFavorites
  /\ clock' = o.clock

------------------------------------------------------------------------------
\* The client: App() of src/src/App.tsx, one instance per context.

Ids(rows) == {rows[i].id : i \in 1..Len(rows)}
LinkIdsOf(favs) == {favs[i].link_id : i \in 1..Len(favs)}

\* The session read by the fetchLinks and fetchFavorites that the mount effect
\* calls.  The effect has the dependency list [] and runs once, after the first
\* render, so its callbacks keep the functions of that render, whose `session` is
\* the initial state useState(null).
EffectSession == NoSession

\* fetchLinks() up to its await; a is the session the client holds then
FetchLinksOps(t, a, o) == {Op(t, "links.select", 0, NoSession, <<>>, <<>>, o.res)}

\* fetchFavorites(): returns at once without a session, otherwise sends the select
\* scoped to session.user.id; s is the session its closure reads
FetchFavoritesOps(t, s) ==
  IF s = NoSession THEN {}
  ELSE {Op(t, "favorites.list", 0, s, <<>>, <<>>, Result(NoError, <<>>))}

\* The body shared by getSession().then(...) and the onAuthStateChange callback
OnSession(t, s) ==
  /\ session' = [session EXCEPT ![t] = s]
  /\ IF s # NoSession
     THEN /\ BagCardinality(pending) + 1 + Cardinality(FetchFavoritesOps(t, EffectSession))
               <= env.maxPending
          /\ \E o \in Outcomes(LinksSelect(s)) :
               /\ pending' = pending (+) SetToBag(FetchLinksOps(t, s, o)
                                  \cup FetchFavoritesOps(t, EffectSession))
               /\ Store(o)
     ELSE UNCHANGED <<pending, dbLinks, dbFavorites, clock>>

\* supabase.auth.getSession() resolves with the persisted session, if any
GetSession(t) ==
  /\ ~mounted[t]
  /\ mounted' = [mounted EXCEPT ![t] = TRUE]
  /\ \E s \in env.users \cup {NoSession} : OnSession(t, s)
  /\ UNCHANGED <<links, favorites, loading, lastToast>>

\* handleAuth: sign-in or sign-up that the identity provider accepts; the provider
\* notifies the subscriber (SIGNED_IN) before the handler resumes
handleAuth(t) ==
  /\ mounted[t]
  /\ session[t] = NoSession
  /\ \E u \in env.users : OnSession(t, u)
  /\ lastToast' = Toast(t, "Successfully signed in!")
  /\ UNCHANGED <<links, favorites, loading, mounted>>

\* handleAuth when the provider reports an error: toast.error(error.message)
handleAuthFails(t) ==
  /\ mounted[t]
  /\ session[t] = NoSession
  /\ lastToast' = Toast(t, "error.message")
  /\ UNCHANGED <<session, links, favorites, loading, mounted, pending,
                 dbLinks, dbFavorites, clock>>

\* onAuthStateChange with the same session (TOKEN_REFRESHED)
TokenRefreshed(t) ==
  /\ mounted[t]
  /\ session[t] # NoSession
  /\ OnSession(t, session[t])
  /\ UNCHANGED <<links, favorites, loading, mounted, lastToast>>

\* onAuthStateChange without a session, not caused by this context's handleSignOut
\* (the session expired, or was ended elsewhere)
SessionLost(t) ==
  /\ mounted[t]
  /\ session[t] # NoSession
  /\ OnSession(t, NoSession)
  /\ UNCHANGED <<links, favorites, loading, mounted, lastToast>>

\* handleSignOut up to its await
handleSignOut(t) ==
  /\ mounted[t]
  /\ session[t] # NoSession
  /\ CanSend
  /\ pending' = Send(Op(t, "auth.signOut", 0, NoSession, <<>>, <<>>,
                        Result(NoError, <<>>)))
  /\ UNCHANGED <<session, links, favorites, loading, mounted, dbLinks, dbFavorites,
                 clock, lastToast>>

\* supabase.auth.signOut() resolves: the subscriber is notified (SIGNED_OUT), then
\* handleSignOut resumes
SignOutResumes(op) ==
  /\ op.req = "auth.signOut"
  /\ session' = [session EXCEPT ![op.tab] = NoSession]
  /\ links' = [links EXCEPT ![op.tab] = <<>>]
  /\ favorites' = [favorites EXCEPT ![op.tab] = <<>>]
  /\ lastToast' = Toast(op.tab, "Signed out successfully")
  /\ pending' = Drop(op)
  /\ UNCHANGED <<mounted, loading, dbLinks, dbFavorites, clock>>

\* Faulty variant of SignedOut: the session check left out
SignedOutNever(t) == FALSE

\* !session
SignedOut(t) == session[t] = NoSession

\* The id the store gave the row of an accepted insert (gen_random_uuid()); the
\* handler never reads it, the suspended call carries it for the properties
InsertedId(o) == IF o.res.error = NoError THEN o.clock ELSE 0

\* addLink up to its await
addLink(t) ==
  /\ mounted[t]
  /\ IF SignedOut(t)
     THEN /\ lastToast' = Toast(t, "Please sign in first")
          /\ UNCHANGED <<pending, dbLinks, dbFavorites, clock>>
     ELSE /\ CanSend
          /\ clock < env.maxLinks
          /\ \E o \in Outcomes(LinksInsert(session[t], session[t])) :
               /\ pending' = Send(Op(t, "links.insert", InsertedId(o), NoSession,
                                     <<>>, <<>>, o.res))
               /\ Store(o)
          /\ UNCHANGED lastToast
  /\ UNCHANGED <<session, links, favorites, loading, mounted>>

\* Faulty variant of AddLinkResumes: the new row put into the cache at once, no
\* fetch
AddLinkResumesOptimistic(op) ==
  /\ op.req = "links.insert"
  /\ IF op.res.error # NoError
     THEN /\ lastToast' = Toast(op.tab, "Error adding link")
          /\ UNCHANGED links
     ELSE /\ lastToast' = Toast(op.tab, "Link added successfully!")
          /\ links' = [links EXCEPT ![op.tab] =
                         <<LinkRow(op.id, session[op.tab])>> \o links[op.tab]]
  /\ pending' = Drop(op)
  /\ UNCHANGED <<mounted, session, favorites, loading, dbLinks, dbFavorites, clock>>

\* addLink after its await
AddLinkResumes(op) ==
  /\ op.req = "links.insert"
  /\ IF op.res.error # NoError
     THEN /\ lastToast' = Toast(op.tab, "Error adding link")
          /\ pending' = Drop(op)
          /\ UNCHANGED <<dbLinks, dbFavorites, clock>>
     ELSE /\ lastToast' = Toast(op.tab, "Link added successfully!")
          /\ \E o \in Outcomes(LinksSelect(session[op.tab])) :
               /\ pending' = Drop(op) (+)
                               SetToBag(FetchLinksOps(op.tab, session[op.tab], o))
               /\ Store(o)
  /\ UNCHANGED <<mounted, session, links, favorites, loading>>

\* Faulty variant of FetchLinksResumes: the loading flag cleared on success only
FetchLinksResumesNoFinally(op) ==
  /\ op.req = "links.select"
  /\ IF op.res.error # NoError
     THEN /\ lastToast' = Toast(op.tab, "Error fetching links")
          /\ UNCHANGED <<links, loading>>
     ELSE /\ links' = [links EXCEPT ![op.tab] = op.res.data]
          /\ loading' = [loading EXCEPT ![op.tab] = FALSE]
          /\ UNCHANGED lastToast
  /\ pending' = Drop(op)
  /\ UNCHANGED <<mounted, session, favorites, dbLinks, dbFavorites, clock>>

\* fetchLinks after its await
FetchLinksResumes(op) ==
  /\ op.req = "links.select"
  /\ IF op.res.error # NoError
     THEN /\ lastToast' = Toast(op.tab, "Error fetching links")
          /\ UNCHANGED links
     ELSE /\ links' = [links EXCEPT ![op.tab] = op.res.data]
          /\ UNCHANGED lastToast
  /\ loading' = [loading EXCEPT ![op.tab] = FALSE]
  /\ pending' = Drop(op)
  /\ UNCHANGED <<mounted, session, favorites, dbLinks, dbFavorites, clock>>

\* session?.user?.email
SessionEmail(t) == IF session[t] = NoSession THEN Undefined ELSE Email(session[t])

\* Faulty variant of NotOwner: only a missing session is refused
NotOwnerSignedOutOnly(t, creatorEmail) == session[t] = NoSession

\* The gate of deleteLink: session?.user?.email !== creatorEmail
NotOwner(t, creatorEmail) == SessionEmail(t) # creatorEmail

\* links.filter((link) => link.id !== id)
WithoutId(rows, id) == SelectSeq(rows, LAMBDA r : r.id # id)

\* deleteLink(id, creatorEmail) up to its await
deleteLink(t, id, creatorEmail) ==
  /\ mounted[t]
  /\ IF NotOwner(t, creatorEmail)
     THEN /\ lastToast' = Toast(t, "You can only delete your own links")
          /\ UNCHANGED <<pending, dbLinks, dbFavorites, clock>>
     ELSE /\ CanSend
          /\ \E o \in Outcomes(LinksDelete(session[t], id)) :
               /\ pending' = Send(Op(t, "links.delete", id, NoSession, links[t], <<>>,
                                     o.res))
               /\ Store(o)
          /\ UNCHANGED lastToast
  /\ UNCHANGED <<session, links, favorites, loading, mounted>>

\* deleteLink after its await: setLinks(links.filter(...)) on the captured links
DeleteLinkResumes(op) ==
  /\ op.req = "links.delete"
  /\ IF op.res.error # NoError
     THEN /\ lastToast' = Toast(op.tab, "Error deleting link")
          /\ UNCHANGED links
     ELSE /\ links' = [links EXCEPT ![op.tab] = WithoutId(op.links, op.id)]
          /\ lastToast' = Toast(op.tab, "Link deleted successfully!")
  /\ pending' = Drop(op)
  /\ UNCHANGED <<mounted, session, favorites, loading, dbLinks, dbFavorites, clock>>

\* Faulty variant of WithoutLink: the cache set back unfiltered
WithoutLinkKept(favs, linkId) == favs

\* favorites.filter(fav => fav.link_id !== linkId)
WithoutLink(favs, linkId) == SelectSeq(favs, LAMBDA f : f.link_id # linkId)

\* favorites.some(fav => fav.link_id === linkId)
IsFavorited(favs, linkId) == linkId \in LinkIdsOf(favs)

\* toggleFavorite(linkId) up to its first await
toggleFavorite(t, linkId) ==
  /\ mounted[t]
  /\ IF SignedOut(t)
     THEN /\ lastToast' = Toast(t, "Please sign in first")
          /\ UNCHANGED <<pending, dbLinks, dbFavorites, clock>>
     ELSE /\ CanSend
          /\ IF IsFavorited(favorites[t], linkId)
             THEN \E o \in Outcomes(FavoritesDelete(session[t], session[t], linkId)) :
                    /\ pending' = Send(Op(t, "favorites.delete", linkId, session[t],
                                          <<>>, favorites[t], o.res))
                    /\ Store(o)
             ELSE \E o \in Outcomes(FavoritesSelectSingle(session[t], session[t], linkId)) :
                    /\ pending' = Send(Op(t, "favorites.select", linkId, session[t],
                                          <<>>, favorites[t], o.res))
                    /\ Store(o)
          /\ UNCHANGED lastToast
  /\ UNCHANGED <<session, links, favorites, loading, mounted>>

\* Faulty variant of ToggleCatch: no case for the uniqueness code
ToggleCatchGeneric(error) == "Error updating favorites"

\* The catch block of toggleFavorite
ToggleCatch(error) ==
  IF error = "23505" THEN "Already in favorites" ELSE "Error updating favorites"

\* toggleFavorite after the delete
ToggleDeleteResumes(op) ==
  /\ op.req = "favorites.delete"
  /\ IF op.res.error # NoError
     THEN /\ lastToast' = Toast(op.tab, ToggleCatch(op.res.error))
          /\ UNCHANGED favorites
     ELSE /\ favorites' = [favorites EXCEPT ![op.tab] = WithoutLink(op.favs, op.id)]
          /\ lastToast' = Toast(op.tab, "Removed from favorites")
  /\ pending' = Drop(op)
  /\ UNCHANGED <<mounted, session, links, loading, dbLinks, dbFavorites, clock>>

\* toggleFavorite after the point lookup: only data is read, the error is dropped
ToggleLookupResumes(op) ==
  /\ op.req = "favorites.select"
  /\ IF op.res.data = <<>>
     THEN \E o \in Outcomes(FavoritesInsert(session[op.tab], op.sess, op.id)) :
            /\ pending' = Replace(op, Op(op.tab, "favorites.insert", op.id, op.sess,
                                         <<>>, op.favs, o.res))
            /\ Store(o)
     ELSE /\ pending' = Drop(op)
          /\ UNCHANGED <<dbLinks, dbFavorites, clock>>
  /\ UNCHANGED <<mounted, session, links, favorites, loading, lastToast>>

\* Faulty variant of ToggleInsertResumes: the row appended to the cache as it is
\* when the answer arrives, not to the array the call captured
ToggleInsertResumesCurrent(op) ==
  /\ op.req = "favorites.insert"
  /\ IF op.res.error # NoError
     THEN /\ lastToast' = Toast(op.tab, ToggleCatch(op.res.error))
          /\ UNCHANGED favorites
     ELSE /\ favorites' = [favorites EXCEPT ![op.tab] = favorites[op.tab] \o op.res.data]
          /\ lastToast' = Toast(op.tab, "Added to favorites")
  /\ pending' = Drop(op)
  /\ UNCHANGED <<mounted, session, links, loading, dbLinks, dbFavorites, clock>>

\* toggleFavorite after the insert
ToggleInsertResumes(op) ==
  /\ op.req = "favorites.insert"
  /\ IF op.res.error # NoError
     THEN /\ lastToast' = Toast(op.tab, ToggleCatch(op.res.error))
          /\ UNCHANGED favorites
     ELSE /\ favorites' = [favorites EXCEPT ![op.tab] = op.favs \o op.res.data]
          /\ lastToast' = Toast(op.tab, "Added to favorites")
  /\ pending' = Drop(op)
  /\ UNCHANGED <<mounted, session, links, loading, dbLinks, dbFavorites, clock>>

\* The history variable `run` follows one context calling toggleFavorite on a
\* link twice, each call awaited and every store call of it succeeding, with
\* nothing else happening in between:
\*   n = 1  the first call is suspended; it was made with no handler suspended and
\*          the link favorited neither in the context's cache nor in the store
\*   n = 2  the first call has completed
\*   n = 3  the second call is suspended
\*   n = 4  the second call has completed
\* Any other step ends the run (n = 0).
Only(b) == CHOOSE o \in BagToSet(b) : TRUE
Observe ==
  LET one == BagCardinality(pending) = 1
      one2 == BagCardinality(pending') = 1
      o == Only(pending)
      o2 == Only(pending')
  IN
  IF /\ pending = EmptyBag /\ one2
     /\ o2.req = "favorites.select" /\ o2.res.error # "network"
     /\ ~BagIn(FavRow(o2.sess, o2.id), dbFavorites)
  THEN Run(o2.tab, o2.sess, o2.id, 1)
  ELSE IF /\ run.n = 1 /\ one /\ one2 /\ pending' # pending
          /\ o2.req = "favorites.insert" /\ o2.res.error = NoError
  THEN run
  ELSE IF /\ run.n = 1 /\ one /\ pending' = EmptyBag
          /\ o.req = "favorites.insert" /\ o.res.error = NoError
  THEN [run EXCEPT !.n = 2]
  ELSE IF /\ run.n = 2 /\ pending = EmptyBag /\ one2
          /\ o2.req = "favorites.delete" /\ o2.res.error = NoError
          /\ o2.tab = run.tab /\ o2.id = run.link
  THEN [run EXCEPT !.n = 3]
  ELSE IF /\ run.n = 3 /\ one /\ pending' = EmptyBag
          /\ o.req = "favorites.delete"
  THEN [run EXCEPT !.n = 4]
  ELSE NoRun

\* An answer that carries an error; a point lookup that finds no row is no failure
IsFailure(o) == o.res.error \notin {NoError, "PGRST116"}

\* What every step does to the deployment and to the history variables
Track ==
  /\ UNCHANGED env
  /\ run' = Observe
  /\ failed' = (failed \/ \E o \in BagToSet(pending') : IsFailure(o))

\* A context's session events and the clicks of its user (a click on delete or on
\* the star is on a link the context shows); a suspended handler resumes with the
\* answer to the request it awaited.
Next ==
  \/ \E t \in env.tabs : GetSession(t) /\ Track
  \/ \E t \in env.tabs : handleAuth(t) /\ Track
  \/ \E t \in env.tabs : handleAuthFails(t) /\ Track
  \/ \E t \in env.tabs : TokenRefreshed(t) /\ Track
  \/ \E t \in env.tabs : SessionLost(t) /\ Track
  \/ \E t \in env.tabs : handleSignOut(t) /\ Track
  \/ \E t \in env.tabs : addLink(t) /\ Track
  \/ \E t \in env.tabs : \E i \in 1..Len(links[t]) :
        deleteLink(t, links[t][i].id, links[t][i].creator_email) /\ Track
  \/ \E t \in env.tabs : \E i \in 1..Len(links[t]) :
        /\ links[t][i].id <= env.maxStarred
        /\ toggleFavorite(t, links[t][i].id)
        /\ Track
  \/ \E op \in BagToSet(pending) : SignOutResumes(op) /\ Track
  \/ \E op \in BagToSet(pending) : AddLinkResumes(op) /\ Track
  \/ \E op \in BagToSet(pending) : FetchLinksResumes(op) /\ Track
  \/ \E op \in BagToSet(pending) : DeleteLinkResumes(op) /\ Track
  \/ \E op \in BagToSet(pending) : ToggleDeleteResumes(op) /\ Track
  \/ \E op \in BagToSet(pending) : ToggleLookupResumes(op) /\ Track
  \/ \E op \in BagToSet(pending) : ToggleInsertResumes(op) /\ Track

Spec == Init /\ [][Next]_vars
SpecFeed == InitFeed /\ [][Next]_vars
SpecTabs == InitTabs /\ [][Next]_vars
SpecStars == InitStars /\ [][Next]_vars

\* What the runtime guarantees: the promise of getSession() settles, and every
\* request in flight is answered, so every suspended handler resumes.  Nothing
\* obliges the user to click.
Fairness ==
  /\ WF_vars(\E t \in env.tabs : GetSession(t) /\ Track)
  /\ WF_vars(\E op \in BagToSet(pending) : SignOutResumes(op) /\ Track)
  /\ WF_vars(\E op \in BagToSet(pending) : AddLinkResumes(op) /\ Track)
  /\ WF_vars(\E op \in BagToSet(pending) : FetchLinksResumes(op) /\ Track)
  /\ WF_vars(\E op \in BagToSet(pending) : DeleteLinkResumes(op) /\ Track)
  /\ WF_vars(\E op \in BagToSet(pending) : ToggleDeleteResumes(op) /\ Track)
  /\ WF_vars(\E op \in BagToSet(pending) : ToggleLookupResumes(op) /\ Track)
  /\ WF_vars(\E op \in BagToSet(pending) : ToggleInsertResumes(op) /\ Track)

SpecLive == Init /\ [][Next]_vars /\ Fairness

------------------------------------------------------------------------------
\* Properties

Quiet == pending = EmptyBag
Stored(u, l) == BagIn(FavRow(u, l), dbFavorites)
CachesEmpty(t) == links[t] = <<>> /\ favorites[t] = <<>>
StoreUnchanged == UNCHANGED <<dbLinks, dbFavorites, clock>>
\* the handler op resumes and ends in this step
Resumed(o) == BagIn(o, pending) /\ pending' = Drop(o)

\* C1: whenever no call is suspended, a link is in the favorite cache of a
\* signed-in context (whose cached rows are all its user's own) if and only if the
\* store holds the favorite row of that user and that link.
C1_CacheMatchesStore ==
  Quiet =>
     \A t \in env.tabs : \A l \in 1..env.maxLinks :
        (/\ session[t] # NoSession
         /\ \A i \in 1..Len(favorites[t]) : favorites[t][i].user_id = session[t])
           => (IsFavorited(favorites[t], l) <=> Stored(session[t], l))

\* C2: with two contexts of one account toggling the same link, the store never
\* holds more than one favorite row per (user, link), and a toggleFavorite that
\* resumes from an insert rejected with the uniqueness code 23505 shows "Already in
\* favorites", not the generic failure, and leaves every favorite cache as it was.
C2_OneRowAndConflictSuppressed ==
  [][ /\ \A u \in Users : \A l \in 1..env.maxLinks :
            CopiesIn(FavRow(u, l), dbFavorites') <= 1
      /\ \A o \in BagToSet(pending) :
            (o.req = "favorites.insert" /\ o.res.error = "23505" /\ Resumed(o))
               => /\ lastToast' = Toast(o.tab, "Already in favorites")
                  /\ favorites' = favorites ]_vars

\* C2 witness: two contexts raced on one link; one insert was accepted and is in
\* that context's cache, the other context was answered 23505 and has shown
\* "Already in favorites" without caching anything.
C2_Witness ==
  \E t \in env.tabs : \E t2 \in env.tabs \ {t} :
     /\ lastToast = Toast(t2, "Already in favorites")
     /\ favorites[t2] = <<>>
     /\ favorites[t] = <<FavRow("u1", 1)>>
     /\ CopiesIn(FavRow("u1", 1), dbFavorites) = 1
     /\ Quiet

\* C3: a run toggle, await, toggle, await on a link that was favorited neither in
\* the cache nor in the store, every store call succeeding, ends with no entry for
\* the link in the cache and no row for (user, link) in the store.
C3_ToggleTwiceUnfavorited ==
  run.n = 4 =>
     /\ ~IsFavorited(favorites[run.tab], run.link)
     /\ ~Stored(run.user, run.link)

\* C3 witness: such a run has completed in a context that is still signed in as
\* the user who made it.
C3_Witness ==
  /\ run.n = 4
  /\ session[run.tab] = run.user
  /\ lastToast = Toast(run.tab, "Removed from favorites")

\* C4: once signOut has completed ("Signed out successfully" is the latest toast)
\* and for as long as the context has no session, its link cache and its favorite
\* cache are empty.
C4_EmptyAfterSignOut ==
  \A t \in env.tabs :
     (lastToast = Toast(t, "Signed out successfully") /\ session[t] = NoSession)
        => CachesEmpty(t)

\* C5: every step that hands a session to the client (initial retrieval, sign-in,
\* token refresh) sends a link fetch and a favorites fetch scoped to that session's
\* user.
C5_SessionFetchesBoth ==
  [][ \A t \in Tabs : \A s \in Users :
        OnSession(t, s) =>
           /\ \E o \in BagToSet(pending') : o.tab = t /\ o.req = "links.select"
           /\ \E o \in BagToSet(pending') :
                 o.tab = t /\ o.req = "favorites.list" /\ o.sess = s ]_vars

\* C6: every step in which a context's session becomes absent clears both of its
\* caches.
C6_SessionAbsentClears ==
  [][ \A t \in Tabs :
        (session[t] # NoSession /\ session'[t] = NoSession) => CachesEmpty(t)' ]_vars

\* C7: whenever no request is in flight and no request has failed, the link cache
\* of a signed-in context that has fetched holds exactly the store's links.
C7_LinkCacheMatchesStore ==
  (Quiet /\ ~failed) =>
     \A t \in env.tabs :
        (session[t] # NoSession /\ ~loading[t]) => links[t] = OrderDesc(dbLinks)

\* C8: a call deleteLink(id, creatorEmail) with creatorEmail different from the
\* session's email (or with no session) sends nothing to the store, leaves the
\* link cache unchanged, and only shows "You can only delete your own links".
C8_ForeignDeleteRejected ==
  [][ \A t \in Tabs : \A id \in 1..env.maxLinks : \A u \in Users :
        (SessionEmail(t) # Email(u) /\ deleteLink(t, id, Email(u)))
           => /\ pending' = pending
              /\ StoreUnchanged
              /\ links' = links /\ favorites' = favorites
              /\ lastToast' = Toast(t, "You can only delete your own links") ]_vars

\* C8 witness: a signed-in context was refused the delete of a link that another
\* user created and that it still shows.
C8_Witness ==
  \E t \in env.tabs :
     /\ lastToast = Toast(t, "You can only delete your own links")
     /\ session[t] # NoSession
     /\ \E i \in 1..Len(links[t]) : links[t][i].creator_email # SessionEmail(t)

\* C9: without a session, addLink and toggleFavorite send nothing to the store,
\* change neither cache, and show "Please sign in first".
C9_SignedOutRejected ==
  [][ \A t \in Tabs :
        (session[t] = NoSession
           /\ (addLink(t) \/ \E l \in 1..env.maxLinks : toggleFavorite(t, l)))
           => /\ pending' = pending
              /\ StoreUnchanged
              /\ links' = links /\ favorites' = favorites
              /\ lastToast' = Toast(t, "Please sign in first") ]_vars

\* C9 witness: a context without a session was refused while the store holds a
\* link.
C9_Witness ==
  \E t \in env.tabs :
     /\ lastToast = Toast(t, "Please sign in first")
     /\ session[t] = NoSession
     /\ dbLinks # {}

\* created_at strictly descending
SortedDesc(rows) ==
  \A i \in 1..Len(rows) : \A j \in 1..Len(rows) :
     i < j => rows[i].created_at > rows[j].created_at

\* a before b in rows
Before(rows, a, b) ==
  \E i \in 1..Len(rows) : \E j \in 1..Len(rows) :
     i < j /\ rows[i].id = a /\ rows[j].id = b

\* C10: every link cache is ordered by creation time, newest first, in every
\* state, and a deleteLink that resumes keeps the relative order of the entries
\* that remain.
C10_FeedNewestFirst ==
  [][ \A t \in Tabs :
        /\ SortedDesc(links'[t])
        /\ \A o \in BagToSet(pending) :
              (o.tab = t /\ o.req = "links.delete" /\ Resumed(o)) =>
                 \A a \in Ids(links'[t]) : \A b \in Ids(links'[t]) :
                    Before(links[t], a, b) => Before(links'[t], a, b) ]_vars

\* C10 witness: of three links created in the order 1, 2, 3 the middle one was
\* deleted, and the feed shows 3 before 1.
C10_Witness ==
  \E t \in env.tabs :
     /\ lastToast = Toast(t, "Link deleted successfully!")
     /\ Len(links[t]) = 2
     /\ links[t][1].id = 3 /\ links[t][2].id = 1

\* the answer to the suspended handler o is consumed in this step
Answered(o) == BagIn(o, pending) /\ CopiesIn(o, pending') < CopiesIn(o, pending)

\* C11: a handler that resumes with a failed answer (an error other than the
\* point lookup's "no row") ends there: it sends nothing more, leaves the link
\* cache and the favorite cache as they are, and the latest toast is then an
\* error-level toast of its context.
C11_FailureLeavesCachesAndReports ==
  [][ \A o \in BagToSet(pending) :
        (Answered(o) /\ IsFailure(o))
           => /\ pending' = Drop(o)
              /\ links' = links /\ favorites' = favorites
              /\ lastToast'.tab = o.tab /\ Level(lastToast'.msg) = "error" ]_vars

\* C12: a toggleFavorite that resumes from an insert rejected with the uniqueness
\* code 23505 leaves the favorite cache as it is and shows a toast that is neither
\* error-level nor the generic failure message.
C12_ConflictIsSoft ==
  [][ \A o \in BagToSet(pending) :
        (o.req = "favorites.insert" /\ o.res.error = "23505" /\ Resumed(o))
           => /\ favorites' = favorites
              /\ lastToast'.tab = o.tab
              /\ lastToast'.msg # "Error updating favorites"
              /\ Level(lastToast'.msg) # "error" ]_vars

\* C13: every entry of the favorite cache of a signed-in context belongs to the
\* user of its session, and every favorite row an answer carries belongs to the
\* user the request was sent for.
C13_FavoritesPrivate ==
  /\ \A t \in env.tabs :
        session[t] # NoSession =>
           \A i \in 1..Len(favorites[t]) : favorites[t][i].user_id = session[t]
  /\ \A o \in BagToSet(pending) :
        o.req \in {"favorites.select", "favorites.insert", "favorites.list"} =>
           \A i \in 1..Len(o.res.data) : o.res.data[i].user_id = o.sess

\* C14: a toggleFavorite call for a link that resumes changes the membership of no
\* other link in the favorite cache of its context.
C14_ToggleTouchesOnlyItsLink ==
  [][ \A o \in BagToSet(pending) :
        (/\ o.req \in {"favorites.select", "favorites.insert", "favorites.delete"}
         /\ Answered(o))
           => \A b \in (1..env.maxLinks) \ {o.id} :
                 IsFavorited(favorites'[o.tab], b) <=> IsFavorited(favorites[o.tab], b) ]_vars

\* C15: a deleteLink that resumes from an accepted delete leaves the link cache of
\* its context equal to the cache just before that step without the entry of the
\* deleted id.
C15_DeleteRemovesOnlyItsEntry ==
  [][ \A o \in BagToSet(pending) :
        (o.req = "links.delete" /\ o.res.error = NoError /\ Resumed(o))
           => links'[o.tab] = WithoutId(links[o.tab], o.id) ]_vars

\* The fetch that an addLink sends when it resumes in this
\* step from the suspended call o
FetchAfter(o, f) ==
  /\ f.req = "links.select" /\ f.tab = o.tab
  /\ pending' = Drop(o) (+) SetToBag({f})

\* C16 as stated: an addLink that resumes leaves the link cache as it is; after an
\* accepted insert it sends one fetchLinks, whose answer, unless an error, is in
\* creation-time order and contains the new link; after a failed insert it sends
\* nothing.
C16_AddLinkFetchShowsNew ==
  [][ \A o \in BagToSet(pending) :
        (o.req = "links.insert" /\ Answered(o))
           => /\ links' = links
              /\ IF o.res.error = NoError
                 THEN \E f \in BagToSet(pending') :
                         /\ FetchAfter(o, f)
                         /\ f.res.error = NoError =>
                               (SortedDesc(f.res.data) /\ o.id \in Ids(f.res.data))
                 ELSE pending' = Drop(o) ]_vars

\* C16 amended: as above, but the fetched list contains the new link exactly when
\* the context still has a session and the link's row is still in the store when
\* the fetch is sent.
C16_AddLinkFetchShowsNewIfKept ==
  [][ \A o \in BagToSet(pending) :
        (o.req = "links.insert" /\ Answered(o))
           => /\ links' = links
              /\ IF o.res.error = NoError
                 THEN \E f \in BagToSet(pending') :
                         /\ FetchAfter(o, f)
                         /\ f.res.error = NoError =>
                               /\ SortedDesc(f.res.data)
                               /\ o.id \in Ids(f.res.data)
                                     <=> (session[o.tab] # NoSession
                                            /\ \E r \in dbLinks : r.id = o.id)
                 ELSE pending' = Drop(o) ]_vars

\* C16 witness: three links were added one after the other, the fetch of the last
\* addLink has completed, and the feed shows them newest first.
C16_Witness ==
  \E t \in env.tabs :
     /\ lastToast = Toast(t, "Link added successfully!")
     /\ Quiet
     /\ Len(links[t]) = 3
     /\ links[t][1].id = 3 /\ links[t][2].id = 2 /\ links[t][3].id = 1

\* C17: a fetchLinks that resumes, with data or with an error, leaves the loading
\* flag of its context false, and no step sets a loading flag that is false back
\* to true.
C17_FetchClearsLoading ==
  [][ \A t \in Tabs :
        /\ \A o \in BagToSet(pending) :
              (o.req = "links.select" /\ o.tab = t /\ Answered(o)) => ~loading'[t]
        /\ ~loading[t] => ~loading'[t] ]_vars

\* C17 witness: the only fetches so far found an empty store or failed, the latest
\* one failed, and the loading flag is cleared.
C17_Witness ==
  \E t \in env.tabs :
     /\ lastToast = Toast(t, "Error fetching links")
     /\ clock = 0 /\ failed /\ Quiet
     /\ ~loading[t]

\* C18: for every link row of the store and every context, the gate of deleteLink
\* lets the context's session pass exactly when the store's delete policy applies
\* to the row for that session; and a deleteLink that resumes and removes its
\* link from the link cache does so only when the row is no longer in the store.
C18_LocalRemovalOnlyAfterStoreRemoval ==
  [][ /\ \A t \in Tabs : \A r \in dbLinks' :
            (~NotOwner(t, r.creator_email))' <=> LinksDeletePolicy(session'[t], r)
      /\ \A o \in BagToSet(pending) :
            (/\ o.req = "links.delete" /\ Resumed(o)
             /\ o.id \in Ids(links[o.tab]) /\ o.id \notin Ids(links'[o.tab]))
               => ~\E r \in dbLinks : r.id = o.id ]_vars

\* C18 witness: a context deleted its own link while the other account exists; the
\* row is gone from the store and from the cache.
C18_Witness ==
  \E t \in env.tabs :
     /\ lastToast = Toast(t, "Link deleted successfully!")
     /\ session[t] # NoSession
     /\ clock = 1 /\ dbLinks = {} /\ links[t] = <<>>

\* C19: in every state, no favorite cache holds two entries with the same link_id.
C19_OneEntryPerLink ==
  \A t \in env.tabs :
     \A i \in 1..Len(favorites[t]) : \A j \in 1..Len(favorites[t]) :
        i # j => favorites[t][i].link_id # favorites[t][j].link_id

\* C19 witness: two toggleFavorite calls for the same link overlapped; one insert
\* was accepted, the other rejected with 23505, and the cache holds the link once.
C19_Witness ==
  \E t \in env.tabs :
     /\ lastToast = Toast(t, "Already in favorites")
     /\ Quiet
     /\ session[t] # NoSession
     /\ favorites[t] = <<FavRow(session[t], 1)>>

\* C20: after initialization the loading flag of every open context eventually
\* becomes false, whether or not getSession() found a persisted session.
C20_LoadingEventuallyCleared ==
  <>(\A t \in env.tabs : ~loading[t])

====
